---- MODULE Spec2Model ----
(***************************************************************************)
(* A model of the timetracking command line tool (src/src/main.rs).       *)
(*                                                                         *)
(* Instants are counted in ticks: SubSec ticks make one second (the clock  *)
(* and the in-memory DateTime<Utc> carry a sub-second part, the data file  *)
(* keeps whole seconds only, serde ts_seconds).  A minute, an hour and a   *)
(* day are scaled down to SecsPerMin, MinsPerHour and HoursPerDay.         *)
(***************************************************************************)
EXTENDS Integers, Sequences, FiniteSets, TLC

VARIABLES
    binary,          \* the build: whether the feature "binary" is compiled in
    file,            \* the data file: a sequence of events with whole-second times
    tmp,             \* the file next to the data file that write_data makes, if any
    now,             \* the wall clock, in ticks
    tz,              \* the local UTC offset, in seconds
    cmd,             \* the command of the running / last process and its arguments
    loaded,          \* `data` as read by read_data at the start of that process
    data,            \* `data` after the command's handler, before sort/dedup/write
    exit,            \* exit code of the last finished process
    pc,              \* "idle", "prompt" while cleanup blocks on stdin, "done" when
                     \* the process has ended, or the place in write_data
    cleaned,         \* cleanup: the `cleaned` vector
    all_conflicting, \* cleanup: the conflict runs not yet resolved (head = prompted)
    prompts,         \* cleanup: prompts printed by the current / last cleanup
    answers,         \* cleanup: the accepted answers of the current / last cleanup
    out              \* output of the last pure-function evaluation (filter_events)

vars == <<binary, file, tmp, now, tz, cmd, loaded, data, exit, pc, cleaned,
          all_conflicting, prompts, answers, out>>

----------------------------------------------------------------------------
(* Bounds of the model *)

SubSec == 2          \* ticks per second
SecsPerMin == 2      \* scaled: seconds per minute
MinsPerHour == 2     \* scaled: minutes per hour
HoursPerDay == 2     \* scaled: hours per day
MaxNow == 2          \* the clock stops advancing at this tick
MaxLog == 3          \* commands stop appending when the log is this long
MaxPrompts == 2      \* cleanup: invalid answers are capped at this many prompts
MaxInput == 5        \* cleanup: length of the event sequences handed to it
MaxFilterLen == 3    \* filter_events: length of the event sequences handed to it

SecsPerHour == SecsPerMin * MinsPerHour
SecsPerDay == SecsPerHour * HoursPerDay

----------------------------------------------------------------------------
(* Option<T> *)

None == <<>>
Some(x) == <<x>>
IsSome(o) == o # <<>>
Unwrap(o) == o[1]

(* Texts are sequences of characters *)
TextA == <<"a">>
TextB == <<"b">>

----------------------------------------------------------------------------
(* TrackingEvent, src/src/main.rs:156-204 *)

Start(description, t) == [kind |-> "Start", description |-> description, time |-> t]
Stop(description, t) == [kind |-> "Stop", description |-> description, time |-> t]

is_start(e) == e.kind = "Start"
is_stop(e) == e.kind = "Stop"
description(e) == e.description

\* with_second(0) clears the seconds field and keeps the sub-second part
time(e, include_seconds) ==
    IF include_seconds
    THEN e.time
    ELSE e.time - ((e.time \div SubSec) % SecsPerMin) * SubSec

Last(s) == s[Len(s)]

----------------------------------------------------------------------------
(* The data file: serde ts_seconds keeps the whole seconds of an instant *)

ts_seconds(e) == [e EXCEPT !.time = e.time \div SubSec]
from_ts_seconds(e) == [e EXCEPT !.time = e.time * SubSec]

\* whether f is a list of events in the format read_data expects
Readable(f) == \A i \in 1..Len(f) : f[i].kind \in {"Start", "Stop"}

\* read_data(..).unwrap_or_default(): no events when f is not such a list
read_data(f) ==
    IF Readable(f) THEN [i \in 1..Len(f) |-> from_ts_seconds(f[i])] ELSE <<>>
serialize(d) == [i \in 1..Len(d) |-> ts_seconds(d[i])]

\* faulty variant: an insertion that places an event before those of equal key
InsertBeforeEqual(sorted, e) ==
    LET k == Cardinality({i \in 1..Len(sorted) : time(sorted[i], TRUE) < time(e, TRUE)})
    IN SubSeq(sorted, 1, k) \o <<e>> \o SubSeq(sorted, k + 1, Len(sorted))

\* Vec::sort_by_key(|e| e.time(true)): a stable insertion by key
InsertByKey(sorted, e) ==
    LET k == Cardinality({i \in 1..Len(sorted) : time(sorted[i], TRUE) <= time(e, TRUE)})
    IN SubSeq(sorted, 1, k) \o <<e>> \o SubSeq(sorted, k + 1, Len(sorted))

RECURSIVE SortPrefix(_, _)
SortPrefix(d, n) ==
    IF n = 0 THEN <<>> ELSE InsertByKey(SortPrefix(d, n - 1), d[n])

sort_by_key(d) == SortPrefix(d, Len(d))

\* Vec::dedup: removes consecutive repeated elements
RECURSIVE DedupPrefix(_, _)
DedupPrefix(d, n) ==
    IF n = 0 THEN <<>>
    ELSE IF n > 1 /\ d[n] = d[n - 1] THEN DedupPrefix(d, n - 1)
    ELSE Append(DedupPrefix(d, n - 1), d[n])

dedup(d) == DedupPrefix(d, Len(d))

\* main, the `if data_changed` block: sort, then dedup, then write, each on
\* the list the step before has left
Persist(d) ==
    CHOOSE f \in {serialize(deduped) :
                     deduped \in {dedup(sorted) : sorted \in {sort_by_key(d)}}} : TRUE

----------------------------------------------------------------------------
(* Result<T> *)

Ok(x) == [ok |-> TRUE, val |-> x]
Err == [ok |-> FALSE, val |-> <<>>]

(***************************************************************************)
(* Date and time texts.  A text is [d, t]: d the optional "YYYY-MM-DD"     *)
(* prefix (a day number), t the colon-separated numbers that follow it.    *)
(* "15" is [None, <<15>>], "2021-04-01 0:15" is [Some(day), <<0, 15>>], a  *)
(* text that is neither a date nor a time is [None, <<>>].                 *)
(***************************************************************************)
Text(d, t) == [d |-> d, t |-> t]
Garbage == Text(None, <<>>)

\* Local::today(): the local calendar date of the clock
today(n, z) == ((n \div SubSec) + z) \div SecsPerDay

\* NaiveTime::parse_from_str(_, "%H:%M:%S") on the numbers t
hms(t) ==
    IF /\ Len(t) = 3
       /\ t[1] \in 0..(HoursPerDay - 1)
       /\ t[2] \in 0..(MinsPerHour - 1)
       /\ t[3] \in 0..(SecsPerMin - 1)
    THEN Some(t[1] * SecsPerHour + t[2] * SecsPerMin + t[3])
    ELSE None

\* faulty variant: the missing numbers are put in front
from_time_padded_in_front(s, suffix) ==
    IF IsSome(s.d) \/ s.t = <<>> THEN None ELSE hms(suffix \o s.t)

\* the closure from_time of parse_date_time: a time without a date
from_time(s, suffix) ==
    IF IsSome(s.d) \/ s.t = <<>> THEN None ELSE hms(s.t \o suffix)

\* the closure from_date_time of parse_date_time: local date and time
from_date_time(s, suffix) ==
    IF ~IsSome(s.d) \/ s.t = <<>> THEN None
    ELSE LET t == hms(s.t \o suffix)
         IN IF IsSome(t) THEN Some(Unwrap(s.d) * SecsPerDay + Unwrap(t)) ELSE None

OrElse(a, b) == IF IsSome(a) THEN a ELSE b

\* the instant, in ticks, of a local date-time given in seconds
local_to_utc(secs, z) == (secs - z) * SubSec

parse_date_time(s, n, z) ==
    LET t == OrElse(from_time(s, <<>>),
                    OrElse(from_time(s, <<0>>), from_time(s, <<0, 0>>)))
        dt == OrElse(from_date_time(s, <<>>),
                     OrElse(from_date_time(s, <<0>>), from_date_time(s, <<0, 0>>)))
    IN IF IsSome(t) THEN Ok(local_to_utc(today(n, z) * SecsPerDay + Unwrap(t), z))
       ELSE IF IsSome(dt) THEN Ok(local_to_utc(Unwrap(dt), z))
       ELSE Err

----------------------------------------------------------------------------
(* The tracking commands, src/src/main.rs:278-353.  n1 and n2 are the      *)
(* first and second reading of the clock.                                  *)

\* faulty variant: the implicit Stop is forgotten
auto_insert_start_only(d, desc, n1, n2) == Append(d, Start(desc, n2))

\* the two pushes of the auto_insert_stop branch
auto_insert(d, desc, n1, n2) == d \o <<Stop(None, n1), Start(desc, n2)>>

start_tracking(auto_insert_stop, d, desc, at, n1, n2, z) ==
    LET should_add == IF d = <<>> THEN TRUE ELSE is_stop(Last(d))
        last_description == IF d = <<>> THEN None ELSE description(Last(d))
    IN IF should_add \/ IsSome(at)
       THEN LET t == IF IsSome(at) THEN parse_date_time(Unwrap(at), n1, z) ELSE Ok(n1)
            IN IF t.ok THEN Ok(Append(d, Start(desc, t.val))) ELSE Err
       ELSE IF auto_insert_stop /\ ~IsSome(at)
       THEN IF IsSome(desc) /\ IsSome(last_description) /\ desc = last_description
            THEN Ok(d)
            ELSE Ok(auto_insert(d, desc, n1, n2))
       ELSE Ok(d)

\* faulty variant: a time text that does not parse is replaced by the clock
stop_tracking_at_or_now(d, desc, at, n1, z) ==
    LET should_add == IF d = <<>> THEN TRUE ELSE is_start(Last(d))
    IN IF should_add \/ IsSome(at)
       THEN LET t == IF IsSome(at) THEN parse_date_time(Unwrap(at), n1, z) ELSE Ok(n1)
            IN Ok(Append(d, Stop(desc, IF t.ok THEN t.val ELSE n1)))
       ELSE Ok(d)

\* faulty variant: the check of the last entry is dropped
stop_tracking_unchecked(d, desc, at, n1, z) ==
    LET t == IF IsSome(at) THEN parse_date_time(Unwrap(at), n1, z) ELSE Ok(n1)
    IN IF t.ok THEN Ok(Append(d, Stop(desc, t.val))) ELSE Err

stop_tracking(d, desc, at, n1, z) ==
    LET should_add == IF d = <<>> THEN TRUE ELSE is_start(Last(d))
    IN IF should_add \/ IsSome(at)
       THEN LET t == IF IsSome(at) THEN parse_date_time(Unwrap(at), n1, z) ELSE Ok(n1)
            IN IF t.ok THEN Ok(Append(d, Stop(desc, t.val))) ELSE Err
       ELSE Ok(d)

\* data.iter().rev().find(|t| t.is_start())
LastStart(d) ==
    LET S == {i \in 1..Len(d) : is_start(d[i])}
    IN IF S = {} THEN None ELSE Some(d[CHOOSE i \in S : \A j \in S : j <= i])

\* faulty variant: the check of the last entry is dropped
continue_tracking_unchecked(d, n1) ==
    IF IsSome(LastStart(d))
    THEN Append(d, Start(description(Unwrap(LastStart(d))), n1))
    ELSE d

continue_tracking(d, n1) ==
    IF d # <<>> /\ is_stop(Last(d))
    THEN IF IsSome(LastStart(d))
         THEN Append(d, Start(description(Unwrap(LastStart(d))), n1))
         ELSE d
    ELSE d

\* faulty variant: an empty log counts as active
status_empty_active(d) == IF d # <<>> THEN (IF is_start(Last(d)) THEN 0 ELSE -1) ELSE 0

\* status: the exit code handed to std::process::exit
status(d) == IF d # <<>> THEN (IF is_start(Last(d)) THEN 0 ELSE -1) ELSE -1

----------------------------------------------------------------------------
(* cleanup, src/src/main.rs:645-738 *)

ScanInit == [cleaned |-> <<>>, conflicting |-> <<>>, all_conflicting |-> <<>>,
             is_start |-> None]

Pop(s) == SubSeq(s, 1, Len(s) - 1)

\* faulty variant: an accepted event does not flip the expected kind
ScanStepNoFlip(st, e) ==
    IF st.is_start = None
    THEN [st EXCEPT !.is_start = Some(is_start(e)), !.cleaned = Append(@, e)]
    ELSE IF is_start(e) = Unwrap(st.is_start)
    THEN IF st.conflicting = <<>>
         THEN [st EXCEPT !.conflicting = <<Last(st.cleaned), e>>, !.cleaned = Pop(@)]
         ELSE [st EXCEPT !.conflicting = Append(@, e)]
    ELSE IF st.conflicting # <<>>
         THEN [st EXCEPT !.all_conflicting = Append(@, st.conflicting),
                         !.conflicting = <<>>,
                         !.cleaned = Append(@, e)]
         ELSE [st EXCEPT !.cleaned = Append(@, e)]

\* the body of `while let Some(e) = data_iter.next()`
ScanStep(st, e) ==
    IF st.is_start = None
    THEN [st EXCEPT !.is_start = Some(is_start(e)), !.cleaned = Append(@, e)]
    ELSE IF st.is_start = Some(TRUE)
    THEN IF is_start(e)
         THEN IF st.conflicting = <<>>
              THEN [st EXCEPT !.conflicting = <<Last(st.cleaned), e>>,
                              !.cleaned = Pop(@)]
              ELSE [st EXCEPT !.conflicting = Append(@, e)]
         ELSE IF st.conflicting # <<>>
              THEN [st EXCEPT !.all_conflicting = Append(@, st.conflicting),
                              !.conflicting = <<>>,
                              !.cleaned = Append(@, e),
                              !.is_start = Some(FALSE)]
              ELSE [st EXCEPT !.cleaned = Append(@, e), !.is_start = Some(FALSE)]
    ELSE IF is_stop(e)
         THEN IF st.conflicting = <<>>
              THEN [st EXCEPT !.conflicting = <<Last(st.cleaned), e>>,
                              !.cleaned = Pop(@)]
              ELSE [st EXCEPT !.conflicting = Append(@, e)]
         ELSE IF st.conflicting # <<>>
              THEN [st EXCEPT !.all_conflicting = Append(@, st.conflicting),
                              !.conflicting = <<>>,
                              !.cleaned = Append(@, e),
                              !.is_start = Some(TRUE)]
              ELSE [st EXCEPT !.cleaned = Append(@, e), !.is_start = Some(TRUE)]

RECURSIVE ScanPrefix(_, _)
ScanPrefix(d, n) ==
    IF n = 0 THEN ScanInit ELSE ScanStep(ScanPrefix(d, n - 1), d[n])

\* the whole scan loop; its `conflicting` is not read after the loop
Scan(d) == ScanPrefix(d, Len(d))

(* The answers read from stdin: the trimmed text, and what                 *)
(* text.parse::<usize>() makes of it.                                      *)
TextAnswer(s) == [text |-> s, parsed |-> None]
NumberAnswer(n) == [text |-> "<digits>", parsed |-> Some(n)]

\* faulty variant: every text that is no number counts as "skip"
IsSkipAnyText(a) == a.parsed = None

IsSkip(a) == a.text = "skip" \/ a.text = ""

\* whether answer a ends the prompt loop of run c
Accepted(c, a) ==
    \/ IsSkip(a)
    \/ IsSome(a.parsed) /\ Unwrap(a.parsed) < Len(c)

\* faulty variant: the entries are counted from one
ResolveFromOne(cl, c, a) ==
    IF IsSkip(a) THEN cl \o c
    ELSE Append(cl, c[IF Unwrap(a.parsed) = 0 THEN 1 ELSE Unwrap(a.parsed)])

\* `cleaned` after the accepted answer a to the prompt for run c
Resolve(cl, c, a) ==
    IF IsSkip(a) THEN cl \o c ELSE Append(cl, c[Unwrap(a.parsed) + 1])

----------------------------------------------------------------------------
(* filter_events, src/src/main.rs:365-465 *)

Date(d) == [tag |-> "Date", v |-> d]
DateTime(secs) == [tag |-> "DateTime", v |-> secs]

ALL == <<"a", "l", "l">>
WEEK == <<"w", "e", "e", "k">>

parse_date_or_date_time(s, n, z) ==
    IF IsSome(s.d) /\ s.t = <<>> THEN Ok(Date(Unwrap(s.d)))
    ELSE IF IsSome(s.d) /\ IsSome(hms(s.t))
    THEN Ok(DateTime(Unwrap(s.d) * SecsPerDay + Unwrap(hms(s.t))))
    ELSE LET r == parse_date_time(s, n, z)
         IN IF r.ok THEN Ok(DateTime((r.val \div SubSec) + z)) ELSE Err

\* str::contains
contains(text, pat) ==
    \E i \in 0..(Len(text) - Len(pat)) : SubSeq(text, i + 1, i + Len(pat)) = pat

unwrap_or_default(o) == IF IsSome(o) THEN Unwrap(o) ELSE <<>>

\* the (filter, from, to) triple computed at the head of filter_events
FilterBounds(from, to, filter, n, z) ==
    IF filter = Some(WEEK)
    THEN LET offset == today(n, z) % 7
         IN Ok([filter |-> None,
                from |-> Date(today(n, z) - offset),
                to |-> Date(today(n, z) + (6 - offset))])
    ELSE LET f == IF IsSome(from) THEN parse_date_or_date_time(Unwrap(from), n, z)
                  ELSE Ok(Date(today(n, z)))
         IN IF ~f.ok THEN Err
            ELSE LET t == IF IsSome(to) THEN parse_date_or_date_time(Unwrap(to), n, z)
                          ELSE IF f.val.tag = "DateTime"
                               THEN Ok(Date(f.val.v \div SecsPerDay))
                               ELSE f
                 IN IF ~t.ok THEN Err
                    ELSE Ok([filter |-> filter, from |-> f.val, to |-> t.val])

\* faulty variant: the "all" bypass is missing
FromPredicateNoBypass(e, filter, from, z) ==
    IF from.tag = "Date"
    THEN time(e, TRUE) >= local_to_utc(from.v * SecsPerDay, z)
    ELSE time(e, TRUE) >= local_to_utc(from.v, z)

FromPredicate(e, filter, from, z) ==
    IF unwrap_or_default(filter) = ALL THEN TRUE
    ELSE IF from.tag = "Date"
    THEN time(e, TRUE) >= local_to_utc(from.v * SecsPerDay, z)
    ELSE time(e, TRUE) >= local_to_utc(from.v, z)

\* faulty variant: a Date bound ends at 0:00:00 of its day
ToPredicateNotWidened(e, filter, to, z) ==
    IF unwrap_or_default(filter) = ALL THEN TRUE
    ELSE IF to.tag = "Date"
    THEN time(e, TRUE) <= local_to_utc(to.v * SecsPerDay, z)
    ELSE time(e, TRUE) <= local_to_utc(to.v, z)

ToPredicate(e, filter, to, z) ==
    IF unwrap_or_default(filter) = ALL THEN TRUE
    ELSE IF to.tag = "Date"
    THEN time(e, TRUE) <= local_to_utc(to.v * SecsPerDay + (SecsPerDay - 1), z)
    ELSE time(e, TRUE) <= local_to_utc(to.v, z)

\* faulty variant: the case of the letters is not looked at
DescriptionPredicateAnyCase(e, filter) ==
    LET lower(t) == [i \in 1..Len(t) |-> IF t[i] = "A" THEN "a" ELSE t[i]]
    IN IF IsSome(filter) /\ IsSome(description(e))
       THEN Unwrap(filter) = ALL
               \/ contains(lower(Unwrap(description(e))), lower(Unwrap(filter)))
       ELSE IF IsSome(filter) THEN Unwrap(filter) = ALL
       ELSE TRUE

DescriptionPredicate(e, filter) ==
    IF IsSome(filter) /\ IsSome(description(e))
    THEN Unwrap(filter) = ALL \/ contains(Unwrap(description(e)), Unwrap(filter))
    ELSE IF IsSome(filter) THEN Unwrap(filter) = ALL
    ELSE TRUE

\* faulty variant: nothing is skipped
skip_nothing(d) == d

RECURSIVE skip_while_is_stop(_)
skip_while_is_stop(d) ==
    IF d # <<>> /\ is_stop(Head(d)) THEN skip_while_is_stop(Tail(d)) ELSE d

\* the three filter closures applied with the triple b, then skip_while
FilterWith(d, b, z) ==
    IF ~b.ok THEN Err
    ELSE LET Keep(e) == /\ FromPredicate(e, b.val.filter, b.val.from, z)
                        /\ ToPredicate(e, b.val.filter, b.val.to, z)
                        /\ DescriptionPredicate(e, b.val.filter)
         IN Ok(skip_while_is_stop(SelectSeq(d, Keep)))

filter_events(d, from, to, filter, n, z) ==
    FilterWith(d, FilterBounds(from, to, filter, n, z), z)

----------------------------------------------------------------------------
(* The work time of a list of events, src/src/main.rs:467-563.  Durations  *)
(* are counted in ticks.                                                   *)

Max(a, b) == IF a >= b THEN a ELSE b
Min(a, b) == IF a <= b THEN a ELSE b

\* DateTime<Utc>::date(): the UTC calendar date of an instant
date(t) == (t \div SubSec) \div SecsPerDay

RECURSIVE DaysPrefix(_, _)
DaysPrefix(d, n) ==
    IF n = 0 THEN <<>>
    ELSE LET r == DaysPrefix(d, n - 1)
         IN IF n > 1 /\ date(time(d[n], TRUE)) = date(time(d[n - 1], TRUE))
            THEN [r EXCEPT ![Len(r)] = Append(@, d[n])]
            ELSE Append(r, <<d[n]>>)

get_data_as_days(d) == DaysPrefix(d, Len(d))

\* Utc::now(), or Utc::now().with_second(0) without the seconds
utc_now(n, include_seconds) == time([time |-> n], include_seconds)

\* Duration::minutes
minutes(m) == m * SecsPerMin * SubSec

(* The loop of get_time_from_day.  `start` is the Start that                *)
(* data_iterator.find has returned while the matching Stop is looked for.  *)
PairInit == [work_day |-> 0, first |-> None, last |-> None, start |-> None]

\* one event taken from data_iterator: the kind looked for, or passed over
PairStep(st, e, include_seconds) ==
    IF st.start = None
    THEN IF is_start(e) THEN [st EXCEPT !.start = Some(e)] ELSE st
    ELSE IF is_stop(e)
    THEN [work_day |-> st.work_day
                         + (time(e, include_seconds)
                              - time(Unwrap(st.start), include_seconds)),
          first |-> IF st.first = None
                    THEN Some(time(Unwrap(st.start), include_seconds))
                    ELSE st.first,
          last |-> Some(time(e, include_seconds)),
          start |-> None]
    ELSE st

RECURSIVE PairPrefix(_, _, _)
PairPrefix(d, n, include_seconds) ==
    IF n = 0 THEN PairInit
    ELSE PairStep(PairPrefix(d, n - 1, include_seconds), d[n], include_seconds)

\* faulty variant: a Start without a Stop is left out
PairLoopClosedOnly(d, include_seconds, n) ==
    [PairPrefix(d, Len(d), include_seconds) EXCEPT !.start = None]

\* the values of work_day, first and last when the loop is left
PairLoop(d, include_seconds, n) ==
    LET st == PairPrefix(d, Len(d), include_seconds)
    IN IF st.start = None THEN st
       ELSE [work_day |-> st.work_day
                            + (utc_now(n, include_seconds)
                                 - time(Unwrap(st.start), include_seconds)),
             first |-> IF st.first = None
                       THEN Some(time(Unwrap(st.start), include_seconds))
                       ELSE st.first,
             last |-> Some(utc_now(n, include_seconds)),
             start |-> None]

unwrap_or(o, x) == IF IsSome(o) THEN Unwrap(o) ELSE x

\* total - work_day
Pause(st, n) == (unwrap_or(st.last, n) - unwrap_or(st.first, n)) - st.work_day

\* faulty variant: the whole minimum break is taken off
DeductWholeBreak(min_daily_break, work_day, pause) ==
    IF min_daily_break > 0 /\ pause > 0 /\ pause < minutes(min_daily_break)
    THEN work_day - minutes(min_daily_break)
    ELSE work_day

\* the `if settings.min_daily_break > 0` block: work_day after it
Deduct(min_daily_break, work_day, pause) ==
    IF min_daily_break > 0 /\ pause > 0 /\ pause < minutes(min_daily_break)
    THEN work_day - (minutes(min_daily_break) - pause)
    ELSE work_day

\* faulty variant: the result is not clamped
get_time_from_day_unclamped(min_daily_break, d, include_seconds, n) ==
    LET st == PairLoop(d, include_seconds, n)
    IN Deduct(min_daily_break, st.work_day, Pause(st, n))

get_time_from_day(min_daily_break, d, include_seconds, n) ==
    LET st == PairLoop(d, include_seconds, n)
    IN Max(Deduct(min_daily_break, st.work_day, Pause(st, n)), 0)

RECURSIVE SumPrefix(_, _)
SumPrefix(s, n) == IF n = 0 THEN 0 ELSE SumPrefix(s, n - 1) + s[n]

get_time_from_events(min_daily_break, d, include_seconds, n) ==
    LET days == get_data_as_days(d)
        t == [i \in 1..Len(days) |->
                 get_time_from_day(min_daily_break, days[i], include_seconds, n)]
    IN SumPrefix(t, Len(t))

\* what get_time_from_day computes for each day of d: the events of the    
\* day, work_day, first and last after the loop, the pause and the result
DayReports(min_daily_break, d, include_seconds, n) ==
    LET days == get_data_as_days(d)
    IN [i \in 1..Len(days) |->
           LET st == PairLoop(days[i], include_seconds, n)
           IN [events |-> days[i],
               work_day |-> st.work_day,
               first |-> st.first,
               last |-> st.last,
               pause |-> Pause(st, n),
               result |-> get_time_from_day(min_daily_break, days[i],
                                            include_seconds, n)]]

----------------------------------------------------------------------------
(* show, src/src/main.rs:355-363 and 565-643 *)

split_duration(duration) ==
    LET hours == duration \div (SecsPerHour * SubSec)
        hours_in_minutes == hours * MinsPerHour
        hours_in_seconds == hours_in_minutes * SecsPerMin
        mins == (duration \div (SecsPerMin * SubSec)) - hours_in_minutes
        minutes_in_seconds == mins * SecsPerMin
        seconds == (duration \div SubSec) - hours_in_seconds - minutes_in_seconds
    IN [hours |-> hours, minutes |-> mins, seconds |-> seconds]

Time(h, m) == [hours |-> h, minutes |-> m]

get_remaining_minutes(time_goal, filter, hours, mins) ==
    LET total == mins + (hours * MinsPerHour)
        goal == IF filter = WEEK THEN time_goal.weekly ELSE time_goal.daily
        required == goal.minutes + (goal.hours * MinsPerHour)
    IN required - total

\* Weekday::num_days_from_monday of a day number: day 0 is a Monday
weekday(day) == day % 7

\* faulty variant: the week's remaining time is shown on every day
RemainingOfWeek(last_day_of_work_week, day, remaining_minutes, remaining_minutes_week) ==
    remaining_minutes_week

\* the choice between the day's and the week's remaining minutes
RemainingOfDayOrWeek(last_day_of_work_week, day, remaining_minutes, remaining_minutes_week) ==
    IF weekday(day) = last_day_of_work_week
    THEN remaining_minutes_week
    ELSE Min(remaining_minutes, remaining_minutes_week)

(* What show prints: `printed` tells the time from the usage message of    *)
(* --remaining; work_time and days are the values it has computed on the   *)
(* way.                                                                    *)
Shown(printed, hours, mins, seconds, computed) ==
    Ok([printed |-> printed, hours |-> hours, minutes |-> mins,
        seconds |-> seconds, computed |-> computed])

\* the remaining minutes r as hours and minutes
ShownRemaining(r, computed) ==
    Shown(TRUE, r \div MinsPerHour, r - ((r \div MinsPerHour) * MinsPerHour), 0,
          computed)

\* `let remaining_minutes = ...` of the branch of a day or week filter
Remaining(settings, f, t, w, n, z) ==
    LET remaining_minutes ==
            get_remaining_minutes(settings.time_goal, f, t.hours, t.minutes)
        remaining_minutes_week ==
            get_remaining_minutes(settings.time_goal, WEEK, w.hours, w.minutes)
    IN Max(IF f # WEEK
           THEN RemainingOfDayOrWeek(settings.last_day_of_work_week, today(n, z),
                                     remaining_minutes, remaining_minutes_week)
           ELSE remaining_minutes,
           0)

\* show from `let (hours, minutes, seconds) = split_duration(work_time)`
\* on: t is the split work time of the filter, w that of the current week
ShowTime(settings, from, to, f, include_seconds, remaining, t, w, computed, n, z) ==
    IF ~remaining
    THEN Shown(TRUE, t.hours, t.minutes, IF include_seconds THEN t.seconds ELSE 0,
               computed)
    ELSE IF (f = WEEK \/ f = <<>>) /\ from = None /\ to = None
    THEN ShownRemaining(Remaining(settings, f, t, w, n, z), computed)
    ELSE Shown(FALSE, 0, 0, 0, computed)

\* show after filter_events has returned Ok(filtered_data)
ShowFiltered(settings, d, filtered_data, from, to, filter, include_seconds, remaining, n, z) ==
    ShowTime(settings, from, to, unwrap_or_default(filter), include_seconds,
             remaining,
             split_duration(get_time_from_events(settings.min_daily_break,
                                                 filtered_data, include_seconds, n)),
             split_duration(get_time_from_events(
                                settings.min_daily_break,
                                filter_events(d, None, None, Some(WEEK), n, z).val,
                                include_seconds, n)),
             [work_time |-> get_time_from_events(settings.min_daily_break,
                                                 filtered_data, include_seconds, n),
              days |-> DayReports(settings.min_daily_break, filtered_data,
                                  include_seconds, n)],
             n, z)

show(settings, d, from, to, filter, include_seconds, remaining, n, z) ==
    LET filtered_data == filter_events(d, from, to, filter, n, z)
    IN IF ~filtered_data.ok THEN Err
       ELSE ShowFiltered(settings, d, filtered_data.val, from, to, filter,
                         include_seconds, remaining, n, z)

----------------------------------------------------------------------------
(* export, src/src/main.rs:772-809 and 876-900.  What export writes is not *)
(* what read_data reads: lines of text, or JSON text next to a data file   *)
(* in bincode.                                                             *)

\* one line "Start at <local date and time> <description>"
to_human_readable(prefix, t, desc) ==
    [kind |-> "line", prefix |-> prefix, description |-> desc, time |-> t]

get_human_readable(d, z) ==
    [i \in 1..Len(d) |->
        to_human_readable(d[i].kind, (d[i].time \div SubSec) + z, d[i].description)]

\* serde_json::to_string(data) of the raw export
to_json(d) ==
    [i \in 1..Len(d) |->
        [kind |-> "json", prefix |-> d[i].kind, description |-> d[i].description,
         time |-> d[i].time \div SubSec]]

----------------------------------------------------------------------------
(* Inputs of the model *)

SeqsUpTo(S, n) == UNION {[1..k -> S] : k \in 0..n}

Descriptions == {None, Some(TextA), Some(TextB)}
StopDescriptions == {None, Some(TextA)}

\* `--at`: absent, "0" (today 0:00:00), "0:0:1" (today 0:00:01), or no time at all
AtArgs == {None, Some(Text(None, <<0>>)), Some(Text(None, <<0, 0, 1>>)), Some(Garbage)}

\* the events of the files handed to import (whole seconds)
ImportEvents == {Start(None, 1), Stop(None, 0)}

Answers == {TextAnswer("skip"), TextAnswer(""), TextAnswer("x")}
               \cup {NumberAnswer(n) : n \in 0..MaxInput}

\* Settings: the values show reads from the configuration
Settings(min_daily_break, daily, weekly, last_day_of_work_week) ==
    [min_daily_break |-> min_daily_break,
     time_goal |-> [daily |-> daily, weekly |-> weekly],
     last_day_of_work_week |-> last_day_of_work_week]

DefaultSettings == Settings(0, Time(0, 0), Time(0, 0), 0)

NoCmd == [name |-> "none", description |-> None, at |-> None, auto |-> FALSE,
          from |-> None, to |-> None, filter |-> None,
          include_seconds |-> FALSE, remaining |-> FALSE,
          settings |-> DefaultSettings,
          to_data_file |-> FALSE, readable |-> FALSE]

Mutating == {"start", "stop", "continue", "cleanup", "import"}

----------------------------------------------------------------------------
(* main, src/src/main.rs:811-916: one action per command.  A process reads *)
(* the data file, runs its command and, for a mutating command that did    *)
(* not fail, sorts, dedups and writes the data.  pc is "idle" while no     *)
(* process runs, "prompt" while cleanup waits for an answer and "done"     *)
(* when the process has ended and its exit code can be read.               *)

CleanupIdle ==
    /\ cleaned' = <<>>
    /\ all_conflicting' = <<>>

\* the model follows a command only while its log is at most MaxLog long
LogFits(r) == r.ok => Len(r.val) <= MaxLog

\* the end of a process whose handler returned r: Result<Vec<TrackingEvent>>
Finish(r) ==
    /\ pc' = "done"
    /\ IF r.ok
       THEN /\ data' = r.val
            /\ file' = Persist(r.val)
            /\ tmp' = IF binary THEN None ELSE tmp
            /\ exit' = 0
       ELSE /\ data' = loaded'
            /\ file' = file
            /\ tmp' = tmp
            /\ exit' = 1

\* the end of a process that writes nothing
FinishReadOnly(code) ==
    /\ pc' = "done"
    /\ data' = loaded'
    /\ exit' = code
    /\ UNCHANGED <<file, tmp>>

Tick ==
    /\ pc = "idle"
    /\ now < MaxNow
    /\ now' = now + 1
    /\ UNCHANGED <<binary, file, tmp, tz, cmd, loaded, data, exit, pc, cleaned,
                   all_conflicting, prompts, answers, out>>

\* the process is gone: its memory is released, the next command starts afresh
Exit ==
    /\ pc = "done"
    /\ pc' = "idle"
    /\ cmd' = NoCmd
    /\ loaded' = <<>>
    /\ data' = <<>>
    /\ exit' = 0
    /\ prompts' = 0
    /\ answers' = <<>>
    /\ out' = Ok(<<>>)
    /\ UNCHANGED <<binary, file, tmp, now, tz, cleaned, all_conflicting>>

StartCmd(desc, at, auto, n2) ==
    /\ pc = "idle"
    /\ loaded' = read_data(file)
    /\ cmd' = [NoCmd EXCEPT !.name = "start", !.description = desc, !.at = at,
                            !.auto = auto]
    /\ LogFits(start_tracking(auto, loaded', desc, at, now, n2, tz))
    /\ Finish(start_tracking(auto, loaded', desc, at, now, n2, tz))
    /\ now' = n2
    /\ CleanupIdle
    /\ UNCHANGED <<binary, tz, prompts, answers, out>>

StopCmd(desc, at) ==
    /\ pc = "idle"
    /\ loaded' = read_data(file)
    /\ cmd' = [NoCmd EXCEPT !.name = "stop", !.description = desc, !.at = at]
    /\ LogFits(stop_tracking(loaded', desc, at, now, tz))
    /\ Finish(stop_tracking(loaded', desc, at, now, tz))
    /\ CleanupIdle
    /\ UNCHANGED <<binary, now, tz, prompts, answers, out>>

ContinueCmd ==
    /\ pc = "idle"
    /\ loaded' = read_data(file)
    /\ cmd' = [NoCmd EXCEPT !.name = "continue"]
    /\ LogFits(Ok(continue_tracking(loaded', now)))
    /\ Finish(Ok(continue_tracking(loaded', now)))
    /\ CleanupIdle
    /\ UNCHANGED <<binary, now, tz, prompts, answers, out>>

\* status ends the process itself: nothing after it runs
StatusCmd ==
    /\ pc = "idle"
    /\ loaded' = read_data(file)
    /\ cmd' = [NoCmd EXCEPT !.name = "status"]
    /\ FinishReadOnly(status(loaded'))
    /\ CleanupIdle
    /\ UNCHANGED <<binary, now, tz, prompts, answers, out>>

\* import (feature "binary"): the data become what the given file holds
ImportCmd(input) ==
    /\ pc = "idle"
    /\ binary
    /\ loaded' = read_data(file)
    /\ cmd' = [NoCmd EXCEPT !.name = "import"]
    /\ Finish(Ok(read_data(input)))
    /\ CleanupIdle
    /\ UNCHANGED <<binary, now, tz, prompts, answers, out>>

\* cleanup up to its first prompt, or to its end when nothing is queued
CleanupCmd ==
    /\ pc = "idle"
    /\ loaded' = read_data(file)
    /\ cmd' = [NoCmd EXCEPT !.name = "cleanup"]
    /\ LET st == Scan(loaded')
       IN IF st.all_conflicting = <<>>
          THEN /\ Finish(Ok(st.cleaned))
               /\ CleanupIdle
               /\ prompts' = 0
               /\ answers' = <<>>
          ELSE /\ cleaned' = st.cleaned
               /\ all_conflicting' = st.all_conflicting
               /\ prompts' = 1
               /\ answers' = <<>>
               /\ pc' = "prompt"
               /\ data' = loaded'
               /\ UNCHANGED <<file, tmp, exit>>
    /\ UNCHANGED <<binary, now, tz, out>>

\* faulty variant: the first accepted answer ends cleanup
AnswerAcceptedEndsCleanup(a) ==
    /\ pc = "prompt"
    /\ Accepted(Head(all_conflicting), a)
    /\ answers' = Append(answers, a)
    /\ Finish(Ok(Resolve(cleaned, Head(all_conflicting), a)))
    /\ CleanupIdle
    /\ UNCHANGED <<binary, now, tz, cmd, loaded, out, prompts>>

\* an answer that ends the prompt loop of the run at the head of the queue
AnswerAccepted(a) ==
    /\ pc = "prompt"
    /\ Accepted(Head(all_conflicting), a)
    /\ answers' = Append(answers, a)
    /\ LET cl == Resolve(cleaned, Head(all_conflicting), a)
       IN IF Tail(all_conflicting) = <<>>
          THEN /\ Finish(Ok(cl))
               /\ CleanupIdle
               /\ UNCHANGED prompts
          ELSE /\ cleaned' = cl
               /\ all_conflicting' = Tail(all_conflicting)
               /\ prompts' = prompts + 1
               /\ UNCHANGED <<file, tmp, data, exit, pc>>
    /\ UNCHANGED <<binary, now, tz, cmd, loaded, out>>

\* any other answer: a message is printed and the same run is prompted again
AnswerRejected(a) ==
    /\ pc = "prompt"
    /\ ~Accepted(Head(all_conflicting), a)
    /\ prompts < MaxPrompts
    /\ prompts' = prompts + 1
    /\ UNCHANGED <<binary, file, tmp, now, tz, cmd, loaded, data, exit, pc, cleaned,
                   all_conflicting, answers, out>>

\* list: prints the filtered events
ListCmd(from, to, filter) ==
    /\ pc = "idle"
    /\ loaded' = read_data(file)
    /\ cmd' = [NoCmd EXCEPT !.name = "list", !.from = from, !.to = to,
                            !.filter = filter]
    /\ out' = filter_events(loaded', from, to, filter, now, tz)
    /\ FinishReadOnly(IF out'.ok THEN 0 ELSE 1)
    /\ CleanupIdle
    /\ UNCHANGED <<binary, now, tz, prompts, answers>>

\* show: prints the work time of the filtered events, or the remaining time
ShowCmd(settings, from, to, filter, include_seconds, remaining) ==
    /\ pc = "idle"
    /\ loaded' = read_data(file)
    /\ cmd' = [NoCmd EXCEPT !.name = "show", !.from = from, !.to = to,
                            !.filter = filter, !.include_seconds = include_seconds,
                            !.remaining = remaining, !.settings = settings]
    /\ out' = show(settings, loaded', from, to, filter, include_seconds, remaining,
                   now, tz)
    /\ FinishReadOnly(IF out'.ok THEN 0 ELSE 1)
    /\ CleanupIdle
    /\ UNCHANGED <<binary, now, tz, prompts, answers>>

\* path: prints the path of the data file
PathCmd ==
    /\ pc = "idle"
    /\ loaded' = read_data(file)
    /\ cmd' = [NoCmd EXCEPT !.name = "path"]
    /\ FinishReadOnly(0)
    /\ CleanupIdle
    /\ UNCHANGED <<binary, now, tz, prompts, answers, out>>

(* export: writes the events to the file at the given path, as lines of    *)
(* text or (feature "binary", without --readable) as JSON.  to_data_file   *)
(* tells whether the path is that of the data file; any other file is not  *)
(* part of the model and what is written to it is kept in out.             *)
ExportCmd(to_data_file, readable) ==
    /\ pc = "idle"
    /\ binary \/ readable
    /\ loaded' = read_data(file)
    /\ cmd' = [NoCmd EXCEPT !.name = "export", !.to_data_file = to_data_file,
                            !.readable = readable]
    /\ out' = Ok(IF readable THEN get_human_readable(loaded', tz) ELSE to_json(loaded'))
    /\ file' = IF to_data_file THEN out'.val ELSE file
    /\ pc' = "done"
    /\ data' = loaded'
    /\ exit' = 0
    /\ CleanupIdle
    /\ UNCHANGED <<binary, tmp, now, tz, prompts, answers>>

(***************************************************************************)
(* write_data step by step, src/src/main.rs:241-276.  With the feature     *)
(* "binary" write_with_flush writes the file at temp_path, which is then   *)
(* renamed to the data file; without it write_with_flush writes the data   *)
(* file itself.  pc is "create" before File::create, "write_all" while     *)
(* write_all and flush run and "rename" before std::fs::rename.            *)
(***************************************************************************)

\* the end of a file that was not written to its end
Cut == [kind |-> "cut", description |-> None, time |-> 0]

\* the number of events of the content c that are in the file f
Written(f) == IF f # <<>> /\ Last(f) = Cut THEN Len(f) - 1 ELSE Len(f)

\* a file with the first k events of the content c
Partial(c, k) == IF k = Len(c) THEN c ELSE Append(SubSeq(c, 1, k), Cut)

\* what write_with_flush has written so far
Target == IF binary THEN Unwrap(tmp) ELSE file

\* start or stop without --at, up to the call of write_data
BeginWrite(name, desc) ==
    /\ pc = "idle"
    /\ loaded' = read_data(file)
    /\ cmd' = [NoCmd EXCEPT !.name = name, !.description = desc]
    /\ LET r == IF name = "start"
                THEN start_tracking(FALSE, loaded', desc, None, now, now, tz)
                ELSE stop_tracking(loaded', desc, None, now, tz)
       IN /\ LogFits(r)
          /\ data' = r.val
    /\ pc' = "create"
    /\ CleanupIdle
    /\ UNCHANGED <<binary, file, tmp, now, tz, exit, prompts, answers, out>>

\* File::create: the file is there and empty
Create ==
    /\ pc = "create"
    /\ IF binary
       THEN tmp' = Some(<<>>) /\ UNCHANGED file
       ELSE file' = <<>> /\ UNCHANGED tmp
    /\ pc' = "write_all"
    /\ UNCHANGED <<binary, now, tz, cmd, loaded, data, exit, cleaned,
                   all_conflicting, prompts, answers, out>>

\* write_all: one more event of the content reaches the file
WriteAll ==
    /\ pc = "write_all"
    /\ Written(Target) < Len(Persist(data))
    /\ IF binary
       THEN tmp' = Some(Partial(Persist(data), Written(Target) + 1)) /\ UNCHANGED file
       ELSE file' = Partial(Persist(data), Written(Target) + 1) /\ UNCHANGED tmp
    /\ UNCHANGED <<binary, now, tz, cmd, loaded, data, exit, pc, cleaned,
                   all_conflicting, prompts, answers, out>>

\* flush, and the return of write_with_flush
Flush ==
    /\ pc = "write_all"
    /\ Target = Persist(data)
    /\ IF binary
       THEN pc' = "rename" /\ UNCHANGED exit
       ELSE pc' = "done" /\ exit' = 0
    /\ UNCHANGED <<binary, file, tmp, now, tz, cmd, loaded, data, cleaned,
                   all_conflicting, prompts, answers, out>>

\* std::fs::rename(temp_path, path)
Rename ==
    /\ pc = "rename"
    /\ file' = Unwrap(tmp)
    /\ tmp' = None
    /\ pc' = "done"
    /\ exit' = 0
    /\ UNCHANGED <<binary, now, tz, cmd, loaded, data, cleaned, all_conflicting,
                   prompts, answers, out>>

\* the process is killed somewhere in write_data
Interrupt ==
    /\ pc \in {"create", "write_all", "rename"}
    /\ pc' = "done"
    /\ exit' = 128 + 9
    /\ UNCHANGED <<binary, file, tmp, now, tz, cmd, loaded, data, cleaned,
                   all_conflicting, prompts, answers, out>>

\* parse_date_time and parse_date_or_date_time on the text s
ParseCall(s) ==
    /\ pc = "idle"
    /\ cmd' = [NoCmd EXCEPT !.name = "parse", !.at = Some(s)]
    /\ out' = Ok([date_time |-> parse_date_time(s, now, tz),
                  date_or_date_time |-> parse_date_or_date_time(s, now, tz)])
    /\ pc' = "done"
    /\ UNCHANGED <<binary, file, tmp, now, tz, loaded, data, exit, cleaned,
                   all_conflicting, prompts, answers>>

----------------------------------------------------------------------------
(* Spec: the commands on a data file that starts empty *)

Init ==
    /\ binary = TRUE
    /\ tmp = None
    /\ file = <<>>
    /\ now = 0
    /\ tz = 0
    /\ cmd = NoCmd
    /\ loaded = <<>>
    /\ data = <<>>
    /\ exit = 0
    /\ pc = "idle"
    /\ cleaned = <<>>
    /\ all_conflicting = <<>>
    /\ prompts = 0
    /\ answers = <<>>
    /\ out = Ok(<<>>)

Next ==
    \/ Tick
    \/ Exit
    \/ \E desc \in Descriptions, at \in AtArgs, auto \in BOOLEAN,
          n2 \in {now, IF now < MaxNow THEN now + 1 ELSE now} :
              StartCmd(desc, at, auto, n2)
    \/ \E desc \in StopDescriptions, at \in AtArgs : StopCmd(desc, at)
    \/ ContinueCmd
    \/ StatusCmd
    \/ \E input \in SeqsUpTo(ImportEvents, 2) : ImportCmd(input)
    \/ CleanupCmd
    \/ \E a \in Answers : AnswerAccepted(a)
    \/ \E a \in Answers : AnswerRejected(a)

Spec == Init /\ [][Next]_vars

----------------------------------------------------------------------------
(* SpecTracking: start, stop and continue without --at, from an empty log, *)
(* with auto_insert_stop on or off, while the clock goes on                *)

NextTracking ==
    \/ Tick
    \/ Exit
    \/ \E desc \in Descriptions, auto \in BOOLEAN,
          n2 \in {now, IF now < MaxNow THEN now + 1 ELSE now} :
              StartCmd(desc, None, auto, n2)
    \/ \E desc \in StopDescriptions : StopCmd(desc, None)
    \/ ContinueCmd

SpecTracking == Init /\ [][NextTracking]_vars

----------------------------------------------------------------------------
(* SpecCleanup: cleanup on any event sequence a data file may hold *)

CleanupEvents == {[kind |-> k, description |-> None, time |-> t] :
                     k \in {"Start", "Stop"}, t \in 0..1}

InitCleanup ==
    /\ binary = TRUE
    /\ tmp = None
    /\ file \in SeqsUpTo(CleanupEvents, MaxInput)
    /\ now = 0
    /\ tz = 0
    /\ cmd = NoCmd
    /\ loaded = <<>>
    /\ data = <<>>
    /\ exit = 0
    /\ pc = "idle"
    /\ cleaned = <<>>
    /\ all_conflicting = <<>>
    /\ prompts = 0
    /\ answers = <<>>
    /\ out = Ok(<<>>)

NextCleanup ==
    \/ CleanupCmd
    \/ \E a \in Answers : AnswerAccepted(a)
    \/ \E a \in Answers : AnswerRejected(a)
    \/ Exit

SpecCleanup == InitCleanup /\ [][NextCleanup]_vars

(* SpecCleanupFair: the operator does not turn down answering for ever:    *)
(* a prompt that waits is at last given an answer that is accepted.        *)
SpecCleanupFair ==
    /\ InitCleanup
    /\ [][NextCleanup]_vars
    /\ WF_vars(\E a \in Answers : AnswerAccepted(a))

----------------------------------------------------------------------------
(* SpecFilter: filter_events, through the list command, on any event       *)
(* sequence a data file may hold                                           *)

FilterFileEvents == {[kind |-> k, description |-> d, time |-> t] :
                        k \in {"Start", "Stop"}, d \in {None, Some(TextA)},
                        t \in {0, SecsPerDay}}

\* --from: absent, "<day 0>", "<day 1>", "0:0:1" (today), or no date or time at all
FromArgs == {None, Some(Text(Some(0), <<>>)), Some(Text(Some(1), <<>>)),
             Some(Text(None, <<0, 0, 1>>)), Some(Garbage)}

\* --to: absent, "<day 0>", "<day 1> 0" or no date or time at all
ToArgs == {None, Some(Text(Some(0), <<>>)), Some(Text(Some(1), <<0>>)), Some(Garbage)}

\* the filter: absent, "all", "week", "" or "a"
FilterArgs == {None, Some(ALL), Some(WEEK), Some(<<>>), Some(TextA)}

InitFilter ==
    /\ binary = TRUE
    /\ tmp = None
    /\ file \in SeqsUpTo(FilterFileEvents, MaxFilterLen)
    /\ now \in {0, SubSec * SecsPerDay}
    /\ tz \in {0, 1}
    /\ cmd = NoCmd
    /\ loaded = <<>>
    /\ data = <<>>
    /\ exit = 0
    /\ pc = "idle"
    /\ cleaned = <<>>
    /\ all_conflicting = <<>>
    /\ prompts = 0
    /\ answers = <<>>
    /\ out = Ok(<<>>)

NextFilter ==
    \/ \E from \in FromArgs, to \in ToArgs, filter \in FilterArgs :
          ListCmd(from, to, filter)
    \/ Exit

SpecFilter == InitFilter /\ [][NextFilter]_vars

----------------------------------------------------------------------------
(* SpecWorkTime: get_time_from_events, through show with the filter "all", *)
(* on any event sequence a data file may hold, ordered or not              *)

MaxDayLen == 4       \* length of the event sequences handed to show
MaxBreak == 2        \* the largest min_daily_break, in minutes

\* seconds 0 and 1 of minute 0, minute 2 of day 0, second 1 of day 1
WorkTimes == {0, 1, 2 * SecsPerMin, SecsPerDay + 1}

WorkEvents == {[kind |-> k, description |-> None, time |-> t] :
                  k \in {"Start", "Stop"}, t \in WorkTimes}

\* the clock: before minute 2 of day 0, after it, and on day 1
WorkNows == {SubSec + 1,
             (2 * SecsPerMin + SecsPerMin + 1) * SubSec,
             (SecsPerDay + SecsPerMin + 1) * SubSec + 1}

\* the configuration: every min_daily_break, and no goals
WorkTimeSettings == {Settings(b, Time(0, 0), Time(0, 0), 0) : b \in 0..MaxBreak}

InitWorkTime ==
    /\ binary = TRUE
    /\ tmp = None
    /\ file \in SeqsUpTo(WorkEvents, MaxDayLen)
    /\ now \in WorkNows
    /\ tz = 0
    /\ cmd = NoCmd
    /\ loaded = <<>>
    /\ data = <<>>
    /\ exit = 0
    /\ pc = "idle"
    /\ cleaned = <<>>
    /\ all_conflicting = <<>>
    /\ prompts = 0
    /\ answers = <<>>
    /\ out = Ok(<<>>)

NextWorkTime ==
    \/ \E settings \in WorkTimeSettings, include_seconds \in BOOLEAN :
          ShowCmd(settings, None, None, Some(ALL), include_seconds, FALSE)
    \/ Exit

SpecWorkTime == InitWorkTime /\ [][NextWorkTime]_vars

----------------------------------------------------------------------------
(* SpecDays: get_data_as_days, through show with the filter "all", on any  *)
(* sequence of events around a midnight of UTC, at any local UTC offset    *)

MaxDaysLen == 3      \* length of the event sequences handed to show
MaxOffset == 1       \* the largest local UTC offset, in seconds, either way

\* the last second of day 0 and the first two seconds of day 1, in UTC
DaysTimes == {SecsPerDay - 1, SecsPerDay, SecsPerDay + 1}

DaysEvents == {[kind |-> k, description |-> None, time |-> t] :
                  k \in {"Start", "Stop"}, t \in DaysTimes}

InitDays ==
    /\ binary = TRUE
    /\ tmp = None
    /\ file \in SeqsUpTo(DaysEvents, MaxDaysLen)
    /\ now = (2 * SecsPerDay) * SubSec + 1
    /\ tz \in (0 - MaxOffset)..MaxOffset
    /\ cmd = NoCmd
    /\ loaded = <<>>
    /\ data = <<>>
    /\ exit = 0
    /\ pc = "idle"
    /\ cleaned = <<>>
    /\ all_conflicting = <<>>
    /\ prompts = 0
    /\ answers = <<>>
    /\ out = Ok(<<>>)

NextDays ==
    \/ \E include_seconds \in BOOLEAN :
          ShowCmd(DefaultSettings, None, None, Some(ALL), include_seconds, FALSE)
    \/ Exit

SpecDays == InitDays /\ [][NextDays]_vars

----------------------------------------------------------------------------
(* SpecShow: show with and without --remaining, on a Tuesday, on any log   *)
(* of events of that day and of the Monday before it                       *)

MaxShowLen == 3      \* length of the event sequences handed to show

\* day 7 is a Monday, day 8 the Tuesday after it
Monday == 7 * SecsPerDay
Tuesday == 8 * SecsPerDay

\* Monday 0:00:00 and Tuesday 0:01:00
ShowTimes == {Monday, Tuesday + SecsPerMin}

ShowEvents == {[kind |-> k, description |-> d, time |-> t] :
                  k \in {"Start", "Stop"}, d \in {None, Some(TextA)},
                  t \in ShowTimes}

\* the goals: a day of 0:01 or 1:01, a week of 3:00; the work week ends on
\* Tuesday or on Friday
ShowSettings == {Settings(0, daily, Time(3, 0), last) :
                    daily \in {Time(0, 1), Time(1, 1)}, last \in {1, 4}}

\* the filter: absent, "", "week" or "a"
ShowFilters == {None, Some(<<>>), Some(WEEK), Some(TextA)}

\* --from: absent or "<Tuesday>"
ShowFrom == {None, Some(Text(Some(8), <<>>))}

InitShow ==
    /\ binary = TRUE
    /\ tmp = None
    /\ file \in SeqsUpTo(ShowEvents, MaxShowLen)
    /\ now = (Tuesday + SecsPerHour + 1) * SubSec + 1
    /\ tz = 0
    /\ cmd = NoCmd
    /\ loaded = <<>>
    /\ data = <<>>
    /\ exit = 0
    /\ pc = "idle"
    /\ cleaned = <<>>
    /\ all_conflicting = <<>>
    /\ prompts = 0
    /\ answers = <<>>
    /\ out = Ok(<<>>)

NextShow ==
    \/ \E settings \in ShowSettings, from \in ShowFrom, filter \in ShowFilters,
          include_seconds \in BOOLEAN :
              ShowCmd(settings, from, None, filter, include_seconds, TRUE)
    \/ \E settings \in ShowSettings, include_seconds \in BOOLEAN :
          ShowCmd(settings, None, None, None, include_seconds, FALSE)
    \/ Exit

SpecShow == InitShow /\ [][NextShow]_vars

----------------------------------------------------------------------------
(* SpecReadOnly: the commands that do not change the data, in both builds, *)
(* on any event sequence a data file may hold                              *)

ReadOnlyEvents == {[kind |-> k, description |-> None, time |-> t] :
                      k \in {"Start", "Stop"}, t \in ShowTimes}

ReadOnlyFilters == {None, Some(ALL)}

ReadOnlyFrom == {None, Some(Garbage)}

\* the configuration: a break of a minute, goals of a minute a day and
\* three hours a week, a work week that ends on day 4
ReadOnlySettings == Settings(1, Time(0, 1), Time(3, 0), 4)

InitReadOnly ==
    /\ binary \in BOOLEAN
    /\ tmp = None
    /\ file \in SeqsUpTo(ReadOnlyEvents, MaxShowLen)
    /\ now = (Tuesday + SecsPerHour + 1) * SubSec + 1
    /\ tz = 0
    /\ cmd = NoCmd
    /\ loaded = <<>>
    /\ data = <<>>
    /\ exit = 0
    /\ pc = "idle"
    /\ cleaned = <<>>
    /\ all_conflicting = <<>>
    /\ prompts = 0
    /\ answers = <<>>
    /\ out = Ok(<<>>)

NextReadOnly ==
    \/ \E from \in ReadOnlyFrom, filter \in ReadOnlyFilters, remaining \in BOOLEAN :
          ShowCmd(ReadOnlySettings, from, None, filter, FALSE, remaining)
    \/ \E from \in ReadOnlyFrom, filter \in ReadOnlyFilters :
          ListCmd(from, None, filter)
    \/ StatusCmd
    \/ PathCmd
    \/ \E to_data_file \in BOOLEAN, readable \in BOOLEAN :
          ExportCmd(to_data_file, readable)
    \/ Exit

SpecReadOnly == InitReadOnly /\ [][NextReadOnly]_vars

----------------------------------------------------------------------------
(* SpecWrite: start and stop with a process that may be killed while it    *)
(* writes, in both builds                                                  *)

WriteFiles == SeqsUpTo({Start(None, 0), Stop(None, 1)}, 2)

InitWrite ==
    /\ binary \in BOOLEAN
    /\ tmp = None
    /\ file \in WriteFiles
    /\ now = 2 * SubSec
    /\ tz = 0
    /\ cmd = NoCmd
    /\ loaded = <<>>
    /\ data = <<>>
    /\ exit = 0
    /\ pc = "idle"
    /\ cleaned = <<>>
    /\ all_conflicting = <<>>
    /\ prompts = 0
    /\ answers = <<>>
    /\ out = Ok(<<>>)

NextWrite ==
    \/ \E name \in {"start", "stop"}, desc \in StopDescriptions : BeginWrite(name, desc)
    \/ Create
    \/ WriteAll
    \/ Flush
    \/ Rename
    \/ Interrupt
    \/ Exit

SpecWrite == InitWrite /\ [][NextWrite]_vars

----------------------------------------------------------------------------
(* SpecDescription: filter_events, through the list command, on events of  *)
(* today with and without descriptions                                     *)

\* descriptions: none, "a", "A" and "ab"
DescriptionEvents == {[kind |-> k, description |-> d, time |-> 0] :
                         k \in {"Start", "Stop"},
                         d \in {None, Some(TextA), Some(<<"A">>), Some(<<"a", "b">>)}}

\* the filter: absent, "all", "", "a", "b", "ab" or "A"
DescriptionFilters == {None, Some(ALL), Some(<<>>), Some(TextA), Some(TextB),
                       Some(<<"a", "b">>), Some(<<"A">>)}

InitDescription ==
    /\ binary = TRUE
    /\ tmp = None
    /\ file \in SeqsUpTo(DescriptionEvents, MaxFilterLen)
    /\ now = 0
    /\ tz = 0
    /\ cmd = NoCmd
    /\ loaded = <<>>
    /\ data = <<>>
    /\ exit = 0
    /\ pc = "idle"
    /\ cleaned = <<>>
    /\ all_conflicting = <<>>
    /\ prompts = 0
    /\ answers = <<>>
    /\ out = Ok(<<>>)

NextDescription ==
    \/ \E filter \in DescriptionFilters : ListCmd(None, None, filter)
    \/ Exit

SpecDescription == InitDescription /\ [][NextDescription]_vars

----------------------------------------------------------------------------
(* SpecParse: parse_date_time and parse_date_or_date_time on texts with    *)
(* and without a date and with up to three numbers, in and out of range    *)

MaxNumbers == 3      \* the most numbers a text has after its date

ParseTexts == {Text(d, t) : d \in {None, Some(0), Some(3)},
                            t \in SeqsUpTo(0..HoursPerDay, MaxNumbers)}

InitParse ==
    /\ binary = TRUE
    /\ tmp = None
    /\ file = <<>>
    /\ now \in {0, SubSec * SecsPerDay + 1}
    /\ tz \in {0, 1}
    /\ cmd = NoCmd
    /\ loaded = <<>>
    /\ data = <<>>
    /\ exit = 0
    /\ pc = "idle"
    /\ cleaned = <<>>
    /\ all_conflicting = <<>>
    /\ prompts = 0
    /\ answers = <<>>
    /\ out = Ok(<<>>)

NextParse ==
    \/ \E s \in ParseTexts : ParseCall(s)
    \/ Exit

SpecParse == InitParse /\ [][NextParse]_vars

----------------------------------------------------------------------------
(* Properties of the commands, checked under Spec *)

Done(name) == pc = "done" /\ cmd.name = name

\* the step that runs command `name` from its start to its end
Ran(name) == pc = "idle" /\ pc' = "done" /\ cmd'.name = name

Alternating(s) == \A i \in 1..(Len(s) - 1) : s[i].kind # s[i + 1].kind

SortedByTime(s) == \A i, j \in 1..Len(s) : i < j => s[i].time <= s[j].time

RECURSIVE IsSubseq(_, _)
IsSubseq(a, b) ==
    IF a = <<>> THEN TRUE
    ELSE IF b = <<>> THEN FALSE
    ELSE IF Head(a) = Head(b) THEN IsSubseq(Tail(a), Tail(b))
    ELSE IsSubseq(a, Tail(b))

Range(s) == {s[i] : i \in 1..Len(s)}

AtSecond(s, t) == LET P(e) == e.time = t IN SelectSeq(s, P)

(* C5: after every mutating command the persisted log holds no two equal   *)
(* events (same kind, description and time), wherever the two copies sit.  *)
C5_NoEqualEvents ==
    (pc = "done" /\ cmd.name \in Mutating) =>
        \A i, j \in 1..Len(file) : i # j => file[i] # file[j]

(* C6: after every mutating command the persisted log is in non-decreasing *)
(* order of time, and the events of one time are in the order they had in  *)
(* the data before the sort (every kept event is there, none is moved).    *)
C6_SortedStable ==
    (pc = "done" /\ cmd.name \in Mutating) =>
        /\ SortedByTime(file)
        /\ exit = 0 =>
              \A t \in {e.time : e \in Range(file)} \cup {e.time : e \in Range(serialize(data))} :
                  /\ IsSubseq(AtSecond(file, t), AtSecond(serialize(data), t))
                  /\ Range(AtSecond(file, t)) = Range(AtSecond(serialize(data), t))

\* a command with --at has put an event before older ones, among equal times
C6_Witness ==
    /\ pc = "done"
    /\ cmd.name \in {"start", "stop"}
    /\ IsSome(cmd.at)
    /\ exit = 0
    /\ ~SortedByTime(data)
    /\ \E i, j \in 1..Len(file) : i < j /\ file[i].time = file[j].time /\ file[i] # file[j]

(* C7: Stop, or Start with auto_insert_stop disabled, without --at appends *)
(* exactly one event of its kind when the log is empty or ends in the      *)
(* opposite kind; otherwise nothing is appended and the persisted log      *)
(* after the command equals the persisted log before it.                   *)
C7_AppendOrUntouched ==
    [][ (/\ Ran("stop") \/ (Ran("start") /\ ~cmd'.auto)
         /\ cmd'.at = None)
        => LET kind == IF cmd'.name = "stop" THEN "Stop" ELSE "Start"
           IN IF loaded' = <<>> \/ Last(loaded').kind # kind
              THEN /\ Len(data') = Len(loaded') + 1
                   /\ SubSeq(data', 1, Len(loaded')) = loaded'
                   /\ Last(data').kind = kind
              ELSE /\ data' = loaded'
                   /\ file' = file ]_vars

(* C8 as stated: Start without --at on a log ending in Start, with         *)
(* auto_insert_stop, appends Stop(None, now) and the new Start, for every  *)
(* description of the new and of the running Start.                        *)
AutoStopCase ==
    /\ Ran("start")
    /\ cmd'.at = None
    /\ cmd'.auto
    /\ loaded' # <<>>
    /\ is_start(Last(loaded'))

AutoStopAppended ==
    /\ data' = loaded' \o <<Stop(None, now), Start(cmd'.description, now')>>
    /\ Last(loaded').time <= now =>
          /\ Len(file') >= 3
          /\ is_start(file'[Len(file') - 2])
          /\ is_stop(file'[Len(file') - 1])
          /\ is_start(file'[Len(file')])

C8_Original == [][AutoStopCase => AutoStopAppended]_vars

(* C8, amended: the same, except when the new Start and the running Start  *)
(* both have a description and the two are equal: then nothing is          *)
(* appended.  The persisted log ends Start, Stop, Start when the running   *)
(* Start is not later than now.                                            *)
C8_Amended ==
    [][ AutoStopCase =>
          IF /\ IsSome(cmd'.description)
             /\ cmd'.description = description(Last(loaded'))
          THEN data' = loaded'
          ELSE AutoStopAppended ]_vars

C8_Witness ==
    /\ Done("start")
    /\ cmd.at = None
    /\ cmd.auto
    /\ Len(data) = Len(loaded) + 2
    /\ IsSome(cmd.description)
    /\ IsSome(description(Last(loaded)))
    /\ Len(file) = 3 /\ is_start(file[1]) /\ is_stop(file[2]) /\ is_start(file[3])

C10_Status ==
    [][ Ran("status") =>
          /\ exit' = 0 <=> (file # <<>> /\ is_start(Last(file)))
          /\ file' = file ]_vars

C10_Witness ==
    /\ Done("status")
    /\ exit = 0
    /\ Len(file) >= 2

(* C12: a Start or Stop whose --at text does not parse fails with an error *)
(* and leaves the persisted log as it was: nothing is appended, nothing is *)
(* written.                                                                *)
C12_AtParseFailure ==
    [][ (/\ Ran("start") \/ Ran("stop")
         /\ IsSome(cmd'.at)
         /\ ~parse_date_time(Unwrap(cmd'.at), now, tz).ok)
        => /\ exit' # 0
           /\ data' = loaded'
           /\ file' = file ]_vars

C12_Witness ==
    /\ Done("stop")
    /\ cmd.at = Some(Garbage)
    /\ exit # 0
    /\ file # <<>>
    /\ is_start(Last(file))

----------------------------------------------------------------------------
(* Properties of the commands that do not change the data, checked under   *)
(* SpecReadOnly                                                            *)

ReadOnly == {"show", "list", "status", "path", "export"}

RanReadOnly == pc = "idle" /\ pc' = "done" /\ cmd'.name \in ReadOnly

(* C11: show, list, status, path and export, with any arguments, failing   *)
(* or not, leave the data file as it was: the same events in the same      *)
(* order.                                                                  *)
C11_ReadOnlyFrame == [][RanReadOnly => file' = file]_vars

\* the same for every path of export but that of the data file
ReadOnlyFrameElsewhere ==
    [][(RanReadOnly /\ ~cmd'.to_data_file) => file' = file]_vars

----------------------------------------------------------------------------
(* Properties of write_data, checked under SpecWrite *)

InWriteData == pc \in {"create", "write_all", "rename"}

(* C17: in every build, whenever a process is interrupted while it writes  *)
(* the log, the data file holds the complete previous list or the complete *)
(* new list: no step of write_data makes it anything else, empty or cut    *)
(* short.                                                                  *)
C17_AtomicReplace ==
    [][InWriteData => (file' = file \/ file' = Persist(data))]_vars

\* the same for the build with the feature "binary" only
AtomicReplaceBinary ==
    [][(InWriteData /\ binary) => (file' = file \/ file' = Persist(data))]_vars

----------------------------------------------------------------------------
(* Properties of the description filter, checked under SpecDescription *)

\* pat is a run of consecutive characters of text, case and all
IsSubstring(pat, text) ==
    \E i \in 1..(Len(text) + 1) : \E j \in (i - 1)..Len(text) : SubSeq(text, i, j) = pat

(* C18: with a filter that is set and is neither "all" nor "week", every   *)
(* event in the output of filter_events has a description that contains    *)
(* the filter text, upper and lower case told apart; an event without a    *)
(* description, Start or Stop, is not in the output.                       *)
C18_DescriptionFilter ==
    (/\ Done("list")
     /\ out.ok
     /\ IsSome(cmd.filter)
     /\ Unwrap(cmd.filter) \notin {ALL, WEEK})
    => \A i \in 1..Len(out.val) :
           /\ IsSome(out.val[i].description)
           /\ IsSubstring(Unwrap(cmd.filter), Unwrap(out.val[i].description))

\* "ab" is kept for the filter "b"; an event without a description and one
\* described "A" are dropped for it
C18_Witness ==
    /\ Done("list")
    /\ cmd.filter = Some(TextB)
    /\ out.ok
    /\ Len(loaded) = 3
    /\ \E i \in 1..3 : loaded[i].description = None
    /\ \E i \in 1..3 : loaded[i].description = Some(<<"A">>)
    /\ Len(out.val) = 1
    /\ out.val[1].description = Some(<<"a", "b">>)

----------------------------------------------------------------------------
(* Properties of the parsers, checked under SpecParse *)

Hours == 0..(HoursPerDay - 1)
Minutes == 0..(MinsPerHour - 1)
Seconds == 0..(SecsPerMin - 1)

\* the second h:m:sec of a day, counted from day 0
SecondOf(day, h, m, sec) == day * SecsPerDay + h * SecsPerHour + m * SecsPerMin + sec

\* the instant at which the local clock shows the second `secs`
InstantOf(secs) == (secs - tz) * SubSec

(* C19: for every hour h and minute m parse_date_time gives "h" the        *)
(* instant of "h:00:00" and "h:m" the instant of "h:m:00", today in local  *)
(* time, and on the date of the text when a date comes first;              *)
(* parse_date_or_date_time gives a Date for a date alone and a DateTime    *)
(* for a date followed by a time in any of the three forms.                *)
C19_Shorthand ==
    Done("parse") =>
        LET s == Unwrap(cmd.at)
            day == IF IsSome(s.d) THEN Unwrap(s.d) ELSE today(now, tz)
            dt == out.val.date_time
            dodt == out.val.date_or_date_time
        IN /\ (Len(s.t) = 1 /\ s.t[1] \in Hours) =>
                  /\ dt = Ok(InstantOf(SecondOf(day, s.t[1], 0, 0)))
                  /\ dt = parse_date_time(Text(s.d, <<s.t[1], 0, 0>>), now, tz)
           /\ (Len(s.t) = 2 /\ s.t[1] \in Hours /\ s.t[2] \in Minutes) =>
                  /\ dt = Ok(InstantOf(SecondOf(day, s.t[1], s.t[2], 0)))
                  /\ dt = parse_date_time(Text(s.d, <<s.t[1], s.t[2], 0>>), now, tz)
           /\ (IsSome(s.d) /\ s.t = <<>>) => dodt = Ok(Date(day))
           /\ (IsSome(s.d) /\ Len(s.t) = 1 /\ s.t[1] \in Hours) =>
                  dodt = Ok(DateTime(SecondOf(day, s.t[1], 0, 0)))
           /\ (IsSome(s.d) /\ Len(s.t) = 2 /\ s.t[1] \in Hours /\ s.t[2] \in Minutes) =>
                  dodt = Ok(DateTime(SecondOf(day, s.t[1], s.t[2], 0)))
           /\ (/\ IsSome(s.d) /\ Len(s.t) = 3
               /\ s.t[1] \in Hours /\ s.t[2] \in Minutes /\ s.t[3] \in Seconds) =>
                  dodt = Ok(DateTime(SecondOf(day, s.t[1], s.t[2], s.t[3])))

\* "<day 3> 1" east of Greenwich: 1:00:00 of day 3, local time
C19_Witness ==
    /\ Done("parse")
    /\ cmd.at = Some(Text(Some(3), <<1>>))
    /\ tz = 1
    /\ out.val.date_time = Ok((3 * SecsPerDay + SecsPerHour - 1) * SubSec)
    /\ out.val.date_or_date_time = Ok(DateTime(3 * SecsPerDay + SecsPerHour))

----------------------------------------------------------------------------
(* Properties of the work time, checked under SpecWorkTime *)

\* the days get_time_from_events has gone through in the last show
Days == out.val.computed.days

MinBreak == minutes(cmd.settings.min_daily_break)

\* the claim's worked, total and pause of a day
Worked(r) == r.work_day
Total(r) == IF IsSome(r.first) THEN Unwrap(r.last) - Unwrap(r.first) ELSE 0
PauseOf(r) == Total(r) - Worked(r)

(* C13 as stated: the result of a day is max(0, worked - (min_daily_break  *)
(* - pause)) when 0 < pause < min_daily_break, and worked otherwise.       *)
C13_Original ==
    (Done("show") /\ out.ok) =>
        \A i \in 1..Len(Days) :
            Days[i].result =
                IF 0 < PauseOf(Days[i]) /\ PauseOf(Days[i]) < MinBreak
                THEN Max(0, Worked(Days[i]) - (MinBreak - PauseOf(Days[i])))
                ELSE Worked(Days[i])

(* C13, amended: the result of a day is max(0, worked - (min_daily_break   *)
(* - pause)) when 0 < pause < min_daily_break, and max(0, worked)          *)
(* otherwise.                                                              *)
C13_BreakDeduction ==
    (Done("show") /\ out.ok) =>
        \A i \in 1..Len(Days) :
            Days[i].result =
                IF 0 < PauseOf(Days[i]) /\ PauseOf(Days[i]) < MinBreak
                THEN Max(0, Worked(Days[i]) - (MinBreak - PauseOf(Days[i])))
                ELSE Max(0, Worked(Days[i]))

\* a break shorter than the minimum: what it lacks is taken off the work
C13_Witness ==
    /\ Done("show")
    /\ out.ok
    /\ \E i \in 1..Len(Days) :
          /\ 0 < PauseOf(Days[i])
          /\ PauseOf(Days[i]) < MinBreak
          /\ Days[i].result = Worked(Days[i]) - (MinBreak - PauseOf(Days[i]))
          /\ Days[i].result > 0
          /\ Len(Days[i].events) >= 3

(* C14: for every event sequence, ordered or not, with Starts before or    *)
(* after now, every min_daily_break and both values of include_seconds,    *)
(* the total work time is not negative and neither is the work time of any *)
(* day.                                                                    *)
C14_NeverNegative ==
    (Done("show") /\ out.ok) =>
        /\ out.val.computed.work_time >= 0
        /\ \A i \in 1..Len(Days) : Days[i].result >= 0
        /\ out.val.hours >= 0 /\ out.val.minutes >= 0 /\ out.val.seconds >= 0

\* a day whose pairs add up to less than nothing, next to a day with work
C14_Witness ==
    /\ Done("show")
    /\ out.ok
    /\ cmd.settings.min_daily_break > 0
    /\ \E i \in 1..Len(Days) : Days[i].work_day < 0 /\ Days[i].result = 0
    /\ out.val.computed.work_time > 0

\* an instant without its seconds; what is below one second stays
ClearSeconds(t) == t - ((t \div SubSec) % SecsPerMin) * SubSec

OnlyStart(r) == Len(r.events) = 1 /\ is_start(r.events[1])

(* C15 as stated: a day of exactly one Start and no Stop has the result    *)
(* now - start.time, for every now and every min_daily_break, both         *)
(* instants without their seconds when include_seconds is false.           *)
C15_Original ==
    (Done("show") /\ out.ok) =>
        \A i \in 1..Len(Days) :
            OnlyStart(Days[i]) =>
                Days[i].result =
                    IF cmd.include_seconds
                    THEN now - Days[i].events[1].time
                    ELSE ClearSeconds(now) - ClearSeconds(Days[i].events[1].time)

(* C15, amended: a day of exactly one Start and no Stop has the result     *)
(* max(0, now - start.time), for every now and every min_daily_break, both *)
(* instants without their seconds when include_seconds is false: a Start   *)
(* later than now counts as no work.                                       *)
C15_OpenStart ==
    (Done("show") /\ out.ok) =>
        \A i \in 1..Len(Days) :
            OnlyStart(Days[i]) =>
                Days[i].result =
                    IF cmd.include_seconds
                    THEN Max(0, now - Days[i].events[1].time)
                    ELSE Max(0, ClearSeconds(now)
                                  - ClearSeconds(Days[i].events[1].time))

C15_Witness ==
    /\ Done("show")
    /\ out.ok
    /\ ~cmd.include_seconds
    /\ cmd.settings.min_daily_break > 0
    /\ \E i \in 1..Len(Days) :
          /\ OnlyStart(Days[i])
          /\ Days[i].events[1].time # ClearSeconds(Days[i].events[1].time)
          /\ Days[i].result > 0

----------------------------------------------------------------------------
(* Properties of show --remaining, checked under SpecShow *)

\* the local calendar date of an event
LocalDate(e) == ((e.time \div SubSec) + tz) \div SecsPerDay

\* the events of d whose local date is one of the days lo..hi
OnDays(d, lo, hi) ==
    LET P(e) == lo <= LocalDate(e) /\ LocalDate(e) <= hi IN SelectSeq(d, P)

\* the whole minutes of the work time of d
MinutesWorked(d) ==
    get_time_from_events(cmd.settings.min_daily_break, d, cmd.include_seconds, now)
        \div minutes(1)

GoalMinutes(goal) == goal.hours * MinsPerHour + goal.minutes

Today == today(now, tz)

DailyRemaining ==
    GoalMinutes(cmd.settings.time_goal.daily) - MinutesWorked(OnDays(loaded, Today, Today))

\* the events of d that have a description
Described(d) == LET P(e) == IsSome(description(e)) IN SelectSeq(d, P)

DailyRemainingDescribed ==
    GoalMinutes(cmd.settings.time_goal.daily)
        - MinutesWorked(Described(OnDays(loaded, Today, Today)))

WeeklyRemaining ==
    GoalMinutes(cmd.settings.time_goal.weekly)
        - MinutesWorked(OnDays(loaded, Today - (Today % 7), Today - (Today % 7) + 6))

\* the minutes show has printed
Reported == out.val.hours * MinsPerHour + out.val.minutes

RemainingCase ==
    /\ Done("show")
    /\ cmd.remaining
    /\ unwrap_or_default(cmd.filter) = <<>>
    /\ cmd.from = None
    /\ cmd.to = None

(* C16 as stated: show --remaining with an empty filter and no from/to     *)
(* max(0, weekly_remaining) on the last day of the work week and           *)
(* max(0, min(daily_remaining, weekly_remaining)) on any other day, where  *)
(* daily_remaining is the daily goal minus the whole minutes worked today  *)
(* and weekly_remaining the weekly goal minus the whole minutes worked in  *)
(* the Monday-Sunday week of today; the reported value is not negative.    *)
C16_Original ==
    RemainingCase =>
        /\ out.ok
        /\ out.val.printed
        /\ Reported >= 0
        /\ Reported =
              IF weekday(Today) = cmd.settings.last_day_of_work_week
              THEN Max(0, WeeklyRemaining)
              ELSE Max(0, Min(DailyRemaining, WeeklyRemaining))

(* C16, amended: the same when no filter is given; when the filter is      *)
(* given as the empty text, the minutes worked today are those of today's  *)
(* events that have a description (the week's minutes are those of all     *)
(* events of the week).                                                    *)
C16_Remaining ==
    RemainingCase =>
        /\ out.ok
        /\ out.val.printed
        /\ Reported >= 0
        /\ LET daily == IF cmd.filter = None THEN DailyRemaining
                        ELSE DailyRemainingDescribed
           IN Reported =
                 IF weekday(Today) = cmd.settings.last_day_of_work_week
                 THEN Max(0, WeeklyRemaining)
                 ELSE Max(0, Min(daily, WeeklyRemaining))

\* not the last day of the work week: the day's remaining time is shown,
\* the week's is larger
C16_Witness ==
    /\ RemainingCase
    /\ weekday(Today) # cmd.settings.last_day_of_work_week
    /\ cmd.filter = None
    /\ 0 < DailyRemaining
    /\ DailyRemaining < WeeklyRemaining
    /\ DailyRemaining < GoalMinutes(cmd.settings.time_goal.daily)
    /\ Reported = DailyRemaining

----------------------------------------------------------------------------
(* Properties of the tracking commands, checked under SpecTracking *)

(* C28: from an empty log, after any sequence of start, stop and continue  *)
(* without --at, the clock never going back, auto_insert_stop on or off,   *)
(* the written log never has two adjacent events of the same kind, and     *)
(* neither has the list a command has built.                               *)
C28_NoConflictWithoutAt ==
    /\ Alternating(file)
    /\ Alternating(data)

\* a full log that ends with the implicit Stop and the new Start
C28_Witness ==
    /\ Done("start")
    /\ cmd.auto
    /\ Len(loaded) = MaxLog - 2
    /\ Len(file) = MaxLog
    /\ is_stop(file[MaxLog - 1]) /\ is_start(file[MaxLog])

----------------------------------------------------------------------------
(* Properties of the day-runs, checked under SpecDays *)

RECURSIVE Concat(_, _)
Concat(s, n) == IF n = 0 THEN <<>> ELSE Concat(s, n - 1) \o s[n]

\* the events show has gone through, and for each the number of its day-run
DayEvents == Concat([i \in 1..Len(Days) |-> Days[i].events], Len(Days))
DayRun ==
    Concat([i \in 1..Len(Days) |-> [j \in 1..Len(Days[i].events) |-> i]], Len(Days))

(* C25: the events are split into day-runs by the local calendar date of   *)
(* their instants: at every local UTC offset two adjacent events are in    *)
(* the same day-run exactly when their instants are on the same local      *)
(* date, so that a Start and its Stop of one local day are in one run.     *)
C25_LocalDayRuns ==
    (Done("show") /\ out.ok) =>
        \A k \in 1..(Len(DayEvents) - 1) :
            (DayRun[k] = DayRun[k + 1])
                <=> (LocalDate(DayEvents[k]) = LocalDate(DayEvents[k + 1]))

\* the day-runs are runs of one calendar date of UTC, at every offset
DayRunsByUtcDate ==
    (Done("show") /\ out.ok) =>
        /\ DayEvents = skip_while_is_stop(loaded)
        /\ \A k \in 1..(Len(DayEvents) - 1) :
               (DayRun[k] = DayRun[k + 1])
                   <=> (date(time(DayEvents[k], TRUE)) = date(time(DayEvents[k + 1], TRUE)))

\* a closed log: ordered by time, Start and Stop in turn, a Stop at its
\* end, nothing later than now
Closed ==
    /\ loaded # <<>>
    /\ SortedByTime(loaded)
    /\ Alternating(loaded)
    /\ is_stop(Last(loaded))
    /\ \A i \in 1..Len(loaded) : loaded[i].time <= now

\* the work time show would have computed at the time n2
WorkTimeAt(n2) ==
    get_time_from_events(cmd.settings.min_daily_break, DayEvents,
                         cmd.include_seconds, n2)

LaterNows == {now + minutes(1), now + SecsPerDay * SubSec}

(* C26: a Start is paired with now only while tracking is active: for a    *)
(* log ordered by time, with Start and Stop in turn and a Stop at its end, *)
(* the total work time is the same whatever now is, also when a Start and  *)
(* its Stop are on different calendar days.                                *)
C26_NowIndependent ==
    (Done("show") /\ out.ok /\ Closed) =>
        \A n2 \in LaterNows : WorkTimeAt(n2) = out.val.computed.work_time

\* the same for the logs in which each Stop is on the date of its Start
NowIndependentWithinDays ==
    (/\ Done("show") /\ out.ok /\ Closed
     /\ \A i \in 1..(Len(loaded) - 1) :
            is_start(loaded[i]) =>
                date(time(loaded[i], TRUE)) = date(time(loaded[i + 1], TRUE))) =>
        \A n2 \in LaterNows : WorkTimeAt(n2) = out.val.computed.work_time

----------------------------------------------------------------------------
(* Properties of cleanup, checked under SpecCleanup *)

Count(e, s) == Cardinality({i \in 1..Len(s) : s[i] = e})

SameEvents(a, b) == \A e \in Range(a) \cup Range(b) : Count(e, a) = Count(e, b)

AllSkipped == \A i \in 1..Len(answers) : IsSkip(answers[i])

(* C1: when every prompt is answered "skip" or with an empty line, cleanup *)
(* returns exactly the events of its input, as a multiset, whatever kinds  *)
(* the last events have.                                                   *)
C1_SkipKeepsAll ==
    (Done("cleanup") /\ AllSkipped) => SameEvents(data, loaded)

(* C2: on an input with no two adjacent events of the same kind cleanup    *)
(* prompts for nothing and returns the input unchanged.                    *)
C2_AlternatingUnchanged ==
    (cmd.name = "cleanup" /\ Alternating(loaded)) =>
        /\ pc = "done"
        /\ prompts = 0
        /\ answers = <<>>
        /\ data = loaded

C2_Witness ==
    /\ Done("cleanup")
    /\ Alternating(loaded)
    /\ Len(loaded) = MaxInput
    /\ data = loaded

\* the runs cleanup has prompted for, in the order of the prompts
Runs == Scan(loaded).all_conflicting

\* what the answer to the prompt of run i leaves of the run
Kept(i) ==
    IF IsSome(answers[i].parsed)
    THEN <<Runs[i][Unwrap(answers[i].parsed) + 1]>>
    ELSE Runs[i]

RECURSIVE KeptUpTo(_)
KeptUpTo(i) == IF i = 0 THEN <<>> ELSE KeptUpTo(i - 1) \o Kept(i)

(* C20: a valid number given to the prompt of a conflict run leaves in     *)
(* cleanup's output the entry of the run with that number and no other     *)
(* entry of the run; what the output holds besides is the same whatever    *)
(* the number: the events the scan has kept and what the other answers     *)
(* leave of their runs.                                                    *)
C20_NumberKeepsOne ==
    Done("cleanup") =>
        /\ Len(answers) = Len(Runs)
        /\ \A i \in 1..Len(Runs) :
               IsSome(answers[i].parsed) => Unwrap(answers[i].parsed) < Len(Runs[i])
        /\ data = Scan(loaded).cleaned \o KeptUpTo(Len(Runs))

\* two runs, a number for each: one Start of the first run, one Stop of the
\* second and the Start after them make the output
C20_Witness ==
    /\ Done("cleanup")
    /\ Len(loaded) = 5
    /\ Len(Runs) = 2
    /\ answers = <<NumberAnswer(1), NumberAnswer(0)>>
    /\ Runs[1][1] # Runs[1][2]
    /\ data = <<loaded[5], loaded[2], loaded[3]>>

\* an answer that is neither "skip", nor empty, nor a number of the list
Invalid(a) ==
    /\ a.text \notin {"skip", ""}
    /\ a.parsed = None \/ Unwrap(a.parsed) >= Len(Head(all_conflicting))

(* C21: an invalid answer to a cleanup prompt (a text that is no number,   *)
(* or a number that is not in the list) changes nothing: the result so far *)
(* and the queued runs stay as they are, the same run is prompted again,   *)
(* cleanup does not end and no event is written or dropped.                *)
C21_InvalidAnswer ==
    [][\A a \in Answers :
          (pc = "prompt" /\ Invalid(a) /\ (AnswerAccepted(a) \/ AnswerRejected(a))) =>
              /\ cleaned' = cleaned
              /\ all_conflicting' = all_conflicting
              /\ answers' = answers
              /\ pc' = "prompt"
              /\ prompts' = prompts + 1
              /\ file' = file /\ data' = data /\ exit' = exit]_vars

\* cleanup has ended well after an answer was turned down
C21_Witness ==
    /\ Done("cleanup")
    /\ exit = 0
    /\ Len(Runs) = 1
    /\ prompts = 2
    /\ Len(answers) = 1

\* the places of d where a maximal run of two or more events of one kind
\* begins, and the place where the run that begins at i ends
RunStarts(d) ==
    {i \in 1..(Len(d) - 1) :
        /\ d[i + 1].kind = d[i].kind
        /\ i = 1 \/ d[i - 1].kind # d[i].kind}

RunEnd(d, i) ==
    CHOOSE j \in i..Len(d) :
        /\ \A k \in i..j : d[k].kind = d[i].kind
        /\ j = Len(d) \/ d[j + 1].kind # d[i].kind

ConflictRuns(d) == {SubSeq(d, i, RunEnd(d, i)) : i \in RunStarts(d)}

EndsInRun(d) == Len(d) >= 2 /\ d[Len(d)].kind = d[Len(d) - 1].kind

(* C22: every maximal run of two or more events of one kind in the input,  *)
(* at its start, in its middle or at its end, is presented for resolution  *)
(* exactly once: cleanup ends with as many accepted answers as the input   *)
(* has such runs, and the runs it has presented are those runs.            *)
C22_EveryRunPrompted ==
    Done("cleanup") =>
        /\ Len(answers) = Cardinality(RunStarts(loaded))
        /\ Len(Runs) = Cardinality(RunStarts(loaded))
        /\ Range(Runs) = ConflictRuns(loaded)

\* the same for the inputs that do not end in a run
EveryRunBeforeTheEndPrompted ==
    (Done("cleanup") /\ ~EndsInRun(loaded)) =>
        /\ Len(answers) = Cardinality(RunStarts(loaded))
        /\ Len(Runs) = Cardinality(RunStarts(loaded))
        /\ Range(Runs) = ConflictRuns(loaded)

(* C23: the sequence cleanup returns keeps the order of its input: the    *)
(* events of the output, in their order, are events of the input in the   *)
(* same order, whatever the answers (a number or skip) to the prompts.     *)
C23_OrderKept ==
    Done("cleanup") => IsSubseq(data, loaded)

\* the same for the inputs cleanup does not prompt for
OrderKeptWithoutPrompt ==
    (Done("cleanup") /\ answers = <<>>) => IsSubseq(data, loaded)

AllNumbers == \A i \in 1..Len(answers) : IsSome(answers[i].parsed)

(* C24: after a cleanup of a log sorted by time in which every prompt is   *)
(* answered with a number, the written log has no two adjacent events of   *)
(* the same kind, also when several events have the same time.             *)
C24_Alternation ==
    (Done("cleanup") /\ exit = 0 /\ SortedByTime(loaded) /\ AllNumbers) =>
        Alternating(file)

(* C29: cleanup does not end while a queued run is unanswered, and it     *)
(* ends: when the operator at last gives each prompt an answer that is     *)
(* accepted (a number of the list, "skip" or an empty line), cleanup       *)
(* returns, after exactly one accepted answer for each queued run.         *)
(* Checked under SpecCleanupFair.                                          *)
C29_Terminates ==
    /\ [](pc = "prompt" =>
             /\ all_conflicting # <<>>
             /\ Len(answers) + Len(all_conflicting) = Len(Runs))
    /\ [](Done("cleanup") => Len(answers) = Len(Runs))
    /\ (pc = "prompt") ~> Done("cleanup")

\* two queued runs, an answer turned down on the way, and cleanup has ended
C29_Witness ==
    /\ Done("cleanup")
    /\ Len(Runs) = 2
    /\ Len(answers) = 2
    /\ prompts = 3

----------------------------------------------------------------------------
(* Properties of filter_events, checked under SpecFilter *)

(* C3 as stated: with filter "all", whatever the values of the bounds, the *)
(* output is the input.                                                    *)
C3_Original ==
    (Done("list") /\ cmd.filter = Some(ALL) /\ out.ok) => out.val = loaded

(* C3, amended: with filter "all" and bounds that parse, whatever their    *)
(* values, the output is the input without its leading run of Stop events  *)
(* (all of the input when it begins with a Start); with a bound that does  *)
(* not parse there is no output.                                           *)
BoundsParse ==
    /\ IsSome(cmd.from) => parse_date_or_date_time(Unwrap(cmd.from), now, tz).ok
    /\ IsSome(cmd.to) => parse_date_or_date_time(Unwrap(cmd.to), now, tz).ok

C3_AllButLeadingStops ==
    (Done("list") /\ cmd.filter = Some(ALL)) =>
        /\ out.ok <=> BoundsParse
        /\ out.ok =>
              \E k \in 0..Len(loaded) :
                  /\ \A i \in 1..k : is_stop(loaded[i])
                  /\ k < Len(loaded) => is_start(loaded[k + 1])
                  /\ out.val = SubSeq(loaded, k + 1, Len(loaded))

\* "all" with a window that holds none of the events, on a log with a leading Stop
C3_Witness ==
    /\ Done("list")
    /\ cmd.filter = Some(ALL)
    /\ cmd.from = Some(Text(Some(1), <<>>))
    /\ cmd.to = Some(Text(Some(0), <<>>))
    /\ Len(loaded) = 3
    /\ is_stop(loaded[1])
    /\ out.ok
    /\ Len(out.val) = 2

(* C4: the output of filter_events is empty or begins with a Start.        *)
C4_StartsWithStart ==
    (Done("list") /\ out.ok) => (out.val = <<>> \/ is_start(Head(out.val)))

C4_Witness ==
    /\ Done("list")
    /\ out.ok
    /\ Len(loaded) = 3
    /\ is_stop(loaded[1]) /\ is_stop(loaded[2]) /\ is_start(loaded[3])
    /\ out.val = <<loaded[3]>>

\* the window of a filter mode other than "all": the week of today for
\* "week", else from `from` (today when absent) to `to` (the date of the
\* lower bound when absent)
WeekMode == cmd.filter = Some(WEEK)

BoundOf(arg) == parse_date_or_date_time(Unwrap(arg), now, tz).val

DateOfBound(b) == IF b.tag = "Date" THEN b.v ELSE b.v \div SecsPerDay

WindowFrom ==
    IF WeekMode THEN Date(Today - (Today % 7))
    ELSE IF IsSome(cmd.from) THEN BoundOf(cmd.from)
    ELSE Date(Today)

WindowTo ==
    IF WeekMode THEN Date(Today - (Today % 7) + 6)
    ELSE IF IsSome(cmd.to) THEN BoundOf(cmd.to)
    ELSE Date(DateOfBound(WindowFrom))

\* the first and the last local second of the window
WindowStart == IF WindowFrom.tag = "Date" THEN SecondOf(WindowFrom.v, 0, 0, 0) ELSE WindowFrom.v
WindowEnd ==
    IF WindowTo.tag = "Date"
    THEN SecondOf(WindowTo.v, HoursPerDay - 1, MinsPerHour - 1, SecsPerMin - 1)
    ELSE WindowTo.v

InWindow(e) == InstantOf(WindowStart) <= e.time /\ e.time <= InstantOf(WindowEnd)

\* the description predicate: no keyword in the mode "week" or without a
\* filter, else the keyword is part of the description
HasKeyword(e) ==
    (WeekMode \/ cmd.filter = None)
        \/ (IsSome(e.description) /\ IsSubstring(Unwrap(cmd.filter), Unwrap(e.description)))

Selected == LET P(e) == InWindow(e) /\ HasKeyword(e) IN SelectSeq(loaded, P)

(* C27: with a filter mode other than "all" the output of filter_events is *)
(* the input events whose instant t has from_bound <= t <= to_bound (both  *)
(* inclusive, a Date bound widened to 0:00:00 resp. 23:59:59 local time,   *)
(* an absent `to` taken as the date of `from`) and that pass the           *)
(* description predicate, without the leading run of Stops, in the order   *)
(* of the input, nothing added, doubled or moved.                          *)
C27_Window ==
    (Done("list") /\ cmd.filter # Some(ALL) /\ out.ok) =>
        \E k \in 0..Len(Selected) :
            /\ \A i \in 1..k : is_stop(Selected[i])
            /\ k < Len(Selected) => is_start(Selected[k + 1])
            /\ out.val = SubSeq(Selected, k + 1, Len(Selected))

\* from day 0 on, no `to`, one second east of UTC: a leading Stop and an
\* event of the next local day are left out
C27_Witness ==
    /\ Done("list")
    /\ out.ok
    /\ cmd.filter = None /\ cmd.to = None
    /\ cmd.from = Some(Text(Some(0), <<>>))
    /\ tz = 1
    /\ Len(loaded) = 3
    /\ is_stop(loaded[1]) /\ loaded[1].time = 0
    /\ is_start(loaded[2]) /\ loaded[2].time = 0
    /\ loaded[3].time = SecsPerDay * SubSec
    /\ out.val = <<loaded[2]>>

====
